---- MODULE Spec2Model ----
(***************************************************************************)
(* A model of the Simple File System of src/sfs_api.c.                     *)
(*                                                                         *)
(* Storage is modelled cell by cell.  A cell holds one integer; a char and *)
(* an int of the C code both take one cell, so a block of the device is a  *)
(* sequence of FILE_SYSTEM_BLOCK_SIZE cells, an i-node is                  *)
(* SIZEOF_I_NODE cells, a directory entry SIZEOF_DIRECTORY_ENTRY cells     *)
(* (its name is a NUL-terminated string of character codes) and a byte of  *)
(* the bitmap one cell holding 8 bits.  The geometry of the source (1024   *)
(* blocks of 1024 bytes, 200 i-nodes, 12 direct pointers, names of 20      *)
(* chars) is reduced to the values below; every region length is computed  *)
(* from the geometry by the code's own formulas.  As in the source, every   *)
(* metadata region ends in padding, the directory region is longer than    *)
(* one block and shorter than the direct pointers of an i-node, and a      *)
(* block boundary of the directory region falls inside a name.             *)
(***************************************************************************)
EXTENDS Integers, Sequences, FiniteSets, TLC

\* ------------------------------------------------------------------------
\* Geometry (reduced) and input bounds.
\* ------------------------------------------------------------------------

\* src/sfs_api.c:14 sets 1024; cells per block in the model.
FILE_SYSTEM_BLOCK_SIZE == 7

\* src/sfs_api.c:141 g_bitmap[FILE_SYSTEM_SIZE / 8]; bytes of the bitmap.
BITMAP_BYTES == 3

\* src/sfs_api.c:13 sets 1024; blocks of the device, 8 per bitmap byte.
FILE_SYSTEM_SIZE == 8 * BITMAP_BYTES

\* src/sfs_api.c:15 sets 200.
NUM_OF_I_NODES == 5

\* src/sfs_api.c:16
NUM_OF_FILES == NUM_OF_I_NODES - 1

\* src/sfs_api.c:111 direct_pointers[12]; the literal 12 of the code.
NUM_DIRECT == 2

\* src/sfs_api.c:105-115: mode, link_count, uid, gid, size, the direct
\* pointers and the indirect pointer, one cell each.
SIZEOF_I_NODE == 5 + NUM_DIRECT + 1

\* Cells of the device an int takes in the arrays of ints that are read
\* from and written to single blocks (src/sfs_api.c:366, 400, 451): such an
\* array has FILE_SYSTEM_BLOCK_SIZE ints and so the length of SIZEOF_INT
\* blocks.
SIZEOF_INT == 4

\* src/sfs_api.c:119 file_name[MAX_FILE_NAME_LENGTH +
\* MAX_FILE_EXTENSION_LENGTH + 1], 20 chars; cells of a name in the model.
FILE_NAME_CELLS == 2

\* src/sfs_api.c:117-120: i_node_id and file_name.
SIZEOF_DIRECTORY_ENTRY == 1 + FILE_NAME_CELLS

\* src/sfs_api.c:96-103: six ints.
SIZEOF_SUPER_BLOCK == 3 + 3

\* src/sfs_api.c:528
MAGIC_NUMBER == 260917301

\* src/sfs_api.c:538 (0x777)
MODE_INIT == 1911

\* Facade calls made in one behaviour.
MaxOps == 4

\* The names callers pass are the empty string "", coded 0, and the
\* one-character strings of the codes 1..MaxName.
MaxName == 2

\* Data bytes written by callers are 1..MaxByte.
MaxByte == 2

Names == 0..MaxName
Bytes == 1..MaxByte
Blocks == 0..(FILE_SYSTEM_SIZE - 1)
Fds == 0..(NUM_OF_FILES - 1)

\* What an uninitialised cell of the stack may hold.
Garbage == {-1, 0}

\* ------------------------------------------------------------------------
\* General utilities.
\* ------------------------------------------------------------------------

\* C's integer division and remainder (truncation toward zero), b > 0.
CDiv(a, b) == IF a >= 0 THEN a \div b ELSE -((-a) \div b)
CRem(a, b) == a - b * CDiv(a, b)

calculate_block_length(file_size) ==
    CDiv(file_size, FILE_SYSTEM_BLOCK_SIZE)
      + (IF CRem(file_size, FILE_SYSTEM_BLOCK_SIZE) > 0 THEN 1 ELSE 0)

min(a, b) == IF a <= b THEN a ELSE b
max(a, b) == IF a >= b THEN a ELSE b

Zeros(n) == [i \in 1..n |-> 0]

\* TRUE, and v evaluated in full: TLC builds the value of an expression on
\* use, so that a loop passing its state on unevaluated nests one evaluation
\* per pass.
Evaluated(v) == v = v

\* The data followed by zeros up to a whole number of blocks.
write_data_to_a_buffer(data) ==
    data \o Zeros(calculate_block_length(Len(data)) * FILE_SYSTEM_BLOCK_SIZE
                    - Len(data))

\* The sequences of ss one after the other.
RECURSIVE Flatten(_)
Flatten(ss) ==
    IF Len(ss) = 0 THEN <<>>
    ELSE IF Len(ss) = 1 THEN ss[1]
    ELSE Flatten(SubSeq(ss, 1, Len(ss) \div 2))
           \o Flatten(SubSeq(ss, Len(ss) \div 2 + 1, Len(ss)))

\* ------------------------------------------------------------------------
\* The block device (disk_emu): the cells of block 0, then of block 1, ...
\* ------------------------------------------------------------------------

BlockRangeOk(start, n) == start >= 0 /\ n >= 0 /\ start + n <= FILE_SYSTEM_SIZE

init_fresh_disk == Zeros(FILE_SYSTEM_SIZE * FILE_SYSTEM_BLOCK_SIZE)

\* Cells of the buffer past its end are read as 0.
BufCell(buf, i) == IF i <= Len(buf) THEN buf[i] ELSE 0

\* The device with the first n blocks of buf written from block start on;
\* the device rejects a range that is not on it.
write_blocks(d, start, n, buf) ==
    IF ~BlockRangeOk(start, n) THEN d
    ELSE SubSeq(d, 1, start * FILE_SYSTEM_BLOCK_SIZE)
           \o [i \in 1..(n * FILE_SYSTEM_BLOCK_SIZE) |-> BufCell(buf, i)]
           \o SubSeq(d, (start + n) * FILE_SYSTEM_BLOCK_SIZE + 1, Len(d))

\* The cells of n blocks from start on; the empty sequence when the device
\* rejects the range (the caller's buffer is then left as it was).
read_blocks(d, start, n) ==
    IF ~BlockRangeOk(start, n) THEN <<>>
    ELSE SubSeq(d, start * FILE_SYSTEM_BLOCK_SIZE + 1,
                (start + n) * FILE_SYSTEM_BLOCK_SIZE)

\* ------------------------------------------------------------------------
\* State.
\* ------------------------------------------------------------------------

VARIABLES
    g_inode_table,           \* src/sfs_api.c:138, indexed 0..NUM_OF_I_NODES-1
    g_fdt,                   \* src/sfs_api.c:139, indexed 0..NUM_OF_FILES-1
    g_root_directory_table,  \* src/sfs_api.c:140, indexed 0..NUM_OF_FILES-1
    g_bitmap,                \* src/sfs_api.c:141, indexed 0..BITMAP_BYTES-1
    root_file_counter,       \* src/sfs_api.c:143
    regions,                 \* src/sfs_api.c:128-135, the eight layout globals
    disk,                    \* the block device
    mem_after,               \* which cached table the build placed behind
                             \* which: decides what an overrun of mksfs(0) hits
    halted,                  \* the process has left defined behaviour
    last,                    \* the last facade call, its arguments and results
    track,                   \* the file created most recently while only
                             \* written since (bookkeeping of the checks)
    created,                 \* the names the calls so far have created (a
                             \* handle was returned for) and not removed
    geometry,                \* src/sfs_api.c:13-16, the three numbers the
                             \* build fixes: block size, blocks, i-nodes
    ops                      \* number of facade calls made

vars == <<g_inode_table, g_fdt, g_root_directory_table, g_bitmap,
          root_file_counter, regions, disk, mem_after, halted, last, track,
          created, geometry, ops>>

\* ------------------------------------------------------------------------
\* Records and their serialised form.
\* ------------------------------------------------------------------------

Directs == 0..(NUM_DIRECT - 1)

i_node(mode, link_count, uid, gid, size, direct_pointers, indirect_pointer) ==
    [mode |-> mode, link_count |-> link_count, uid |-> uid, gid |-> gid,
     size |-> size, direct_pointers |-> direct_pointers,
     indirect_pointer |-> indirect_pointer]

directory_entry(i_node_id, file_name) ==
    [i_node_id |-> i_node_id, file_name |-> file_name]

fdt_entry(i_node_idx, read_write_pointer) ==
    [i_node_idx |-> i_node_idx, read_write_pointer |-> read_write_pointer]

super_block(itab_len, root_dir) ==
    <<MAGIC_NUMBER, FILE_SYSTEM_BLOCK_SIZE, FILE_SYSTEM_SIZE, itab_len,
      NUM_OF_I_NODES, root_dir>>

InodeCells(n) ==
    <<n.mode, n.link_count, n.uid, n.gid, n.size>>
      \o [i \in 1..NUM_DIRECT |-> n.direct_pointers[i - 1]]
      \o <<n.indirect_pointer>>

CellsInode(c) ==
    i_node(c[1], c[2], c[3], c[4], c[5],
           [i \in Directs |-> c[6 + i]], c[6 + NUM_DIRECT])

InodeTableCells(tab) ==
    Flatten([k \in 1..NUM_OF_I_NODES |-> InodeCells(tab[k - 1])])

CellsInodeTable(cells) ==
    [k \in 0..(NUM_OF_I_NODES - 1) |->
        CellsInode(SubSeq(cells, k * SIZEOF_I_NODE + 1, (k + 1) * SIZEOF_I_NODE))]

DirectoryCells(tab) ==
    Flatten([k \in 1..NUM_OF_FILES |->
                <<tab[k - 1].i_node_id>> \o tab[k - 1].file_name])

CellsDirectory(cells) ==
    [k \in Fds |->
        directory_entry(cells[k * SIZEOF_DIRECTORY_ENTRY + 1],
                        SubSeq(cells, k * SIZEOF_DIRECTORY_ENTRY + 2,
                               (k + 1) * SIZEOF_DIRECTORY_ENTRY))]

\* The string a caller passes for name code n.
Str(n) == IF n = 0 THEN <<>> ELSE <<n>>

\* The string strcmp and strlen read from a name buffer: the cells before
\* the first NUL (all of them when there is none).
RECURSIVE CString(_)
CString(cells) ==
    IF cells = <<>> \/ Head(cells) = 0 THEN <<>>
    ELSE <<Head(cells)>> \o CString(Tail(cells))

NoName == Zeros(FILE_NAME_CELLS)

BitmapCells(bm) == [k \in 1..BITMAP_BYTES |-> bm[k - 1]]

CellsBitmap(cells) == [k \in 0..(BITMAP_BYTES - 1) |-> cells[k + 1]]

\* ------------------------------------------------------------------------
\* Bitmap utilities.  A bit of 1 is a free block.
\* ------------------------------------------------------------------------

BitOf(byte, column_num) == (byte \div (2 ^ column_num)) % 2

bitmap_is_block_free(bm, block_id) ==
    BitOf(bm[block_id \div 8], block_id % 8) > 0

bitmap_free_a_block(bm, block_id) ==
    IF bitmap_is_block_free(bm, block_id) THEN bm
    ELSE [bm EXCEPT ![block_id \div 8] = @ + 2 ^ (block_id % 8)]

\* block_id = -1 indexes byte 0 and shifts by -1, which C leaves undefined:
\* with shift_clears the byte loses its bits, without it the byte is kept.
bitmap_occupy_a_block(bm, block_id, shift_clears) ==
    IF block_id = -1
    THEN (IF shift_clears THEN [bm EXCEPT ![0] = 0] ELSE bm)
    ELSE IF bitmap_is_block_free(bm, block_id)
         THEN [bm EXCEPT ![block_id \div 8] = @ - 2 ^ (block_id % 8)]
         ELSE bm

FreeBlocks(bm) == {b \in Blocks : bitmap_is_block_free(bm, b)}

bitmap_find_first_available_block(bm) ==
    IF FreeBlocks(bm) = {} THEN -1
    ELSE CHOOSE b \in FreeBlocks(bm) : \A c \in FreeBlocks(bm) : b <= c

\* ------------------------------------------------------------------------
\* Flushing utilities.
\* ------------------------------------------------------------------------

flush_i_node_table(d, tab, r) ==
    write_blocks(d, r.I_NODE_TABLE_START, r.I_NODE_TABLE_LENGTH,
                 write_data_to_a_buffer(InodeTableCells(tab)))

flush_root_directory_table(d, tab, r) ==
    write_blocks(d, r.ROOT_DIRECTORY_START, r.ROOT_DIRECTORY_LENGTH,
                 write_data_to_a_buffer(DirectoryCells(tab)))

flush_bitmap(d, bm, r) ==
    write_blocks(d, r.BITMAP_START, r.BITMAP_LENGTH,
                 write_data_to_a_buffer(BitmapCells(bm)))

\* ------------------------------------------------------------------------
\* Root directory utilities.
\* ------------------------------------------------------------------------

\* The index of the entry, -1 for NULL.
root_get_directory_entry(dir, filename) ==
    LET hit == {i \in Fds : /\ dir[i].i_node_id # -1
                            /\ CString(dir[i].file_name) = filename}
    IN  IF hit = {} THEN -1 ELSE CHOOSE i \in hit : \A j \in hit : i <= j

root_get_directory_entry_via_inode(dir, inode_idx) ==
    LET hit == {i \in Fds : dir[i].i_node_id = inode_idx}
    IN  IF hit = {} THEN -1 ELSE CHOOSE i \in hit : \A j \in hit : i <= j

root_count_number_of_files(dir) ==
    Cardinality({i \in Fds : dir[i].i_node_id # -1})

\* The index of the entry returned, -1 for NULL: the j-loop finds the i-th
\* non-empty entry and the code then returns the entry at index i.
root_get_ith_file(dir, i) ==
    LET nonempty == {j \in Fds : dir[j].i_node_id # -1}
        before(j) == Cardinality({k \in nonempty : k < j})
    IN  IF \E j \in nonempty : before(j) = i THEN i ELSE -1

root_get_first_available_directory_entry(dir) ==
    LET hit == {i \in Fds : dir[i].i_node_id = -1}
    IN  IF hit = {} THEN -1 ELSE CHOOSE i \in hit : \A j \in hit : i <= j

\* ------------------------------------------------------------------------
\* i-node utilities.
\* ------------------------------------------------------------------------

inode_tab_get_first_available_entry(tab) ==
    LET hit == {i \in 0..(NUM_OF_I_NODES - 1) : tab[i].size = -1}
    IN  IF hit = {} THEN -1 ELSE CHOOSE i \in hit : \A j \in hit : i <= j


\* The block holding offset loc of the file.  g is the value an
\* uninitialised or out-of-array cell of the stack holds.
inode_get_block_id_by_offset(node, loc, d, g) ==
    IF calculate_block_length(node.size) * FILE_SYSTEM_BLOCK_SIZE <= loc
    THEN -1
    ELSE IF loc < NUM_DIRECT * FILE_SYSTEM_BLOCK_SIZE
    THEN (IF CDiv(loc, FILE_SYSTEM_BLOCK_SIZE) \in Directs
          THEN node.direct_pointers[CDiv(loc, FILE_SYSTEM_BLOCK_SIZE)]
          ELSE g)
    ELSE LET indirect_block == read_blocks(d, node.indirect_pointer, 1)
             i == CDiv(loc - NUM_DIRECT * FILE_SYSTEM_BLOCK_SIZE,
                       FILE_SYSTEM_BLOCK_SIZE)
         IN  IF i + 1 \in DOMAIN indirect_block THEN indirect_block[i + 1]
             ELSE g

\* A block-sized stack buffer after read_blocks(ptr, 1, buffer): the cells of
\* the block, or g everywhere when the device rejected the read and left the
\* buffer uninitialised.
LoadBlock(d, ptr, g) ==
    IF BlockRangeOk(ptr, 1) THEN read_blocks(d, ptr, 1)
    ELSE [i \in 1..FILE_SYSTEM_BLOCK_SIZE |-> g]

\* "int indirect_block[FILE_SYSTEM_BLOCK_SIZE]" after read_blocks(ptr, 1,
\* indirect_block): the array has the length of SIZEOF_INT blocks, of which
\* the read fills the first; the rest is uninitialised.
IndirectArray(d, ptr, g) ==
    LoadBlock(d, ptr, g)
        \o [i \in 1..((SIZEOF_INT - 1) * FILE_SYSTEM_BLOCK_SIZE) |-> g]

\* Entries of the array of src/sfs_api.c:400.
INDIRECT_ENTRIES == SIZEOF_INT * FILE_SYSTEM_BLOCK_SIZE

\* The index i at which the scan of src/sfs_api.c:411 stops: the first i
\* from 0 on that is the last index of the array or has -1 in entry i + 1.
IndirectScan(blk) ==
    LET stop == {i \in 0..(INDIRECT_ENTRIES - 1) :
                    ~(i < INDIRECT_ENTRIES - 1 /\ blk[i + 2] # -1)}
    IN  CHOOSE i \in stop : \A j \in stop : i <= j

\* Variant of inode_assign_new_block that does not mark the indirect block
\* it takes as occupied.
inode_assign_new_block_unmarked(tab, idx, bm, d, r, g, shift_clears) ==
    LET vac_block == bitmap_find_first_available_block(bm)
        bm1 == bitmap_occupy_a_block(bm, vac_block, shift_clears)
        node == tab[idx]
        freeslots == {i \in Directs : node.direct_pointers[i] = -1}
    IN  IF vac_block = -1
        THEN [tab |-> tab, bm |-> bm1, disk |-> d, ret |-> -1]
        ELSE IF freeslots # {}
        THEN LET i == CHOOSE k \in freeslots : \A j \in freeslots : k <= j
             IN  [tab |-> [tab EXCEPT ![idx].direct_pointers[i] = vac_block],
                  bm |-> bm1, disk |-> d, ret |-> vac_block]
        ELSE IF node.indirect_pointer = -1
        THEN LET ind == bitmap_find_first_available_block(bm1)
                 bm2 == bm1
                 tab2 == [tab EXCEPT ![idx].indirect_pointer = ind]
                 indirect_block ==
                     [k \in 1..INDIRECT_ENTRIES |->
                        IF k = 1 THEN vac_block ELSE -1]
                 d1 == write_blocks(d, ind, 1, indirect_block)
                 d2 == flush_bitmap(d1, bm2, r)
                 d3 == flush_i_node_table(d2, tab2, r)
             IN  [tab |-> tab2, bm |-> bm2, disk |-> d3, ret |-> vac_block]
        ELSE LET blk == IndirectArray(d, node.indirect_pointer, g)
                 i == IndirectScan(blk)
             IN  IF i = INDIRECT_ENTRIES - 1
                 THEN [tab |-> tab, bm |-> bm1, disk |-> d, ret |-> -1]
                 ELSE LET indirect_block == [blk EXCEPT ![i + 2] = vac_block]
                          d1 == write_blocks(d, node.indirect_pointer, 1,
                                             indirect_block)
                          d2 == flush_bitmap(d1, bm1, r)
                          d3 == flush_i_node_table(d2, tab, r)
                      IN  [tab |-> tab, bm |-> bm1, disk |-> d3,
                           ret |-> vac_block]

\* Assign a new block to i-node idx.  Yields the tables, the device and the
\* block id returned (-1 on failure).
inode_assign_new_block(tab, idx, bm, d, r, g, shift_clears) ==
    LET vac_block == bitmap_find_first_available_block(bm)
        bm1 == bitmap_occupy_a_block(bm, vac_block, shift_clears)
        node == tab[idx]
        freeslots == {i \in Directs : node.direct_pointers[i] = -1}
    IN  IF vac_block = -1
        THEN [tab |-> tab, bm |-> bm1, disk |-> d, ret |-> -1]
        ELSE IF freeslots # {}
        THEN LET i == CHOOSE k \in freeslots : \A j \in freeslots : k <= j
             IN  [tab |-> [tab EXCEPT ![idx].direct_pointers[i] = vac_block],
                  bm |-> bm1, disk |-> d, ret |-> vac_block]
        ELSE IF node.indirect_pointer = -1
        THEN LET ind == bitmap_find_first_available_block(bm1)
                 bm2 == bitmap_occupy_a_block(bm1, ind, shift_clears)
                 tab2 == [tab EXCEPT ![idx].indirect_pointer = ind]
                 indirect_block ==
                     [k \in 1..INDIRECT_ENTRIES |->
                        IF k = 1 THEN vac_block ELSE -1]
                 d1 == write_blocks(d, ind, 1, indirect_block)
                 d2 == flush_bitmap(d1, bm2, r)
                 d3 == flush_i_node_table(d2, tab2, r)
             IN  [tab |-> tab2, bm |-> bm2, disk |-> d3, ret |-> vac_block]
        ELSE LET blk == IndirectArray(d, node.indirect_pointer, g)
                 i == IndirectScan(blk)
             IN  IF i = INDIRECT_ENTRIES - 1
                 THEN [tab |-> tab, bm |-> bm1, disk |-> d, ret |-> -1]
                 ELSE LET indirect_block == [blk EXCEPT ![i + 2] = vac_block]
                          d1 == write_blocks(d, node.indirect_pointer, 1,
                                             indirect_block)
                          d2 == flush_bitmap(d1, bm1, r)
                          d3 == flush_i_node_table(d2, tab, r)
                      IN  [tab |-> tab, bm |-> bm1, disk |-> d3,
                           ret |-> vac_block]

\* The block ids a loop of inode_reset passes to bitmap_free_a_block: the
\* entries before the first -1.
UpToSentinel(ids) ==
    LET ends == {i \in DOMAIN ids : ids[i] = -1}
    IN  IF ends = {} THEN ids
        ELSE SubSeq(ids, 1, (CHOOSE i \in ends : \A j \in ends : i <= j) - 1)

\* bitmap_free_a_block on each of ids, in order.
RECURSIVE FreeAll(_, _)
FreeAll(bm, ids) ==
    IF Len(ids) = 0 THEN bm
    ELSE IF Len(ids) = 1 THEN bitmap_free_a_block(bm, ids[1])
    ELSE LET first == FreeAll(bm, SubSeq(ids, 1, Len(ids) \div 2))
         IN  IF Evaluated(first)
             THEN FreeAll(first, SubSeq(ids, Len(ids) \div 2 + 1, Len(ids)))
             ELSE bm

\* The blocks inode_reset releases.  The i-node is reset in a local copy
\* (src/sfs_api.c:436, "i_node node = g_inode_table[i_node_id]"), so the
\* cached table keeps the i-node as it was; the indirect block itself is
\* not released (src/sfs_api.c:456).
InodeResetFrees(tab, i_node_id, d, g) ==
    LET node == tab[i_node_id]
        direct == UpToSentinel([i \in 1..NUM_DIRECT |-> node.direct_pointers[i - 1]])
        indirect == IF node.indirect_pointer = -1 THEN <<>>
                    ELSE UpToSentinel(IndirectArray(d, node.indirect_pointer, g))
    IN  direct \o indirect

\* Whether every release of inode_reset indexes inside g_bitmap.
InodeResetDefined(tab, i_node_id, d, g) ==
    \A k \in DOMAIN InodeResetFrees(tab, i_node_id, d, g) :
        InodeResetFrees(tab, i_node_id, d, g)[k] \in Blocks

\* Yields the bitmap and the device; the cached i-node table is unchanged.
inode_reset(tab, i_node_id, bm, d, r, g) ==
    LET bm1 == FreeAll(bm, InodeResetFrees(tab, i_node_id, d, g))
        d1 == flush_bitmap(d, bm1, r)
        d2 == flush_i_node_table(d1, tab, r)
    IN  [tab |-> tab, bm |-> bm1, disk |-> d2]

\* ------------------------------------------------------------------------
\* FDT utilities.
\* ------------------------------------------------------------------------

fdt_get_first_available_entry(fdt) ==
    LET hit == {i \in Fds : fdt[i].i_node_idx = -1}
    IN  IF hit = {} THEN -1 ELSE CHOOSE i \in hit : \A j \in hit : i <= j

\* Whether the scan dereferences the NULL that
\* root_get_directory_entry_via_inode returns for an i-node without entry,
\* before it finds the name.
FdtScanDerefsNull(fdt, dir, filename) ==
    LET open == {i \in Fds : fdt[i].i_node_idx # -1}
        named == {i \in open :
                    root_get_directory_entry_via_inode(dir, fdt[i].i_node_idx) # -1
                    /\ CString(dir[root_get_directory_entry_via_inode(
                                       dir, fdt[i].i_node_idx)].file_name)
                          = filename}
        orphan == {i \in open :
                    root_get_directory_entry_via_inode(dir, fdt[i].i_node_idx) = -1}
    IN  \E o \in orphan : \A n \in named : o < n

fdt_get_fd_by_filename(fdt, dir, filename) ==
    LET hit == {i \in Fds :
                  /\ fdt[i].i_node_idx # -1
                  /\ root_get_directory_entry_via_inode(dir, fdt[i].i_node_idx) # -1
                  /\ CString(dir[root_get_directory_entry_via_inode(
                                     dir, fdt[i].i_node_idx)].file_name)
                        = filename}
    IN  IF hit = {} THEN -1 ELSE CHOOSE i \in hit : \A j \in hit : i <= j

\* ------------------------------------------------------------------------
\* mksfs.
\* ------------------------------------------------------------------------

\* The three numbers of the build (src/sfs_api.c:13-16).
BuildGeometry ==
    [block_size |-> FILE_SYSTEM_BLOCK_SIZE, fs_size |-> FILE_SYSTEM_SIZE,
     i_nodes |-> NUM_OF_I_NODES]

\* calculate_block_length (src/sfs_api.c:155-157) in a build whose
\* FILE_SYSTEM_BLOCK_SIZE is block_size.
BlockLength(file_size, block_size) ==
    CDiv(file_size, block_size)
      + (IF CRem(file_size, block_size) > 0 THEN 1 ELSE 0)

\* The layout globals from the table lengths and the bytes of the bitmap
\* that BITMAP_LENGTH is computed from (src/sfs_api.c:512-519 and 578-585,
\* which differ in that last number only).
Layout(G, bitmap_bytes) ==
    LET files == G.i_nodes - 1
        itl == BlockLength(G.i_nodes * SIZEOF_I_NODE, G.block_size)
        rds == 1 + itl
        rdl == BlockLength(files * SIZEOF_DIRECTORY_ENTRY, G.block_size)
        bml == BlockLength(bitmap_bytes, G.block_size)
    IN  [I_NODE_TABLE_START |-> 1, I_NODE_TABLE_LENGTH |-> itl,
         ROOT_DIRECTORY_START |-> rds, ROOT_DIRECTORY_LENGTH |-> rdl,
         DATA_BLOCK_START |-> rds + rdl,
         DATA_BLOCK_LENGTH |-> (G.fs_size - bml) - (rds + rdl),
         BITMAP_START |-> G.fs_size - bml, BITMAP_LENGTH |-> bml]

\* src/sfs_api.c:512-519, mksfs(1), in a build of geometry G.
LayoutFresh(G) ==
    LET files == G.i_nodes - 1
    IN  Layout(G, CDiv(files, 8) + (IF CRem(files, 8) > 0 THEN 1 ELSE 0))

\* src/sfs_api.c:578-585, mksfs(0), in a build of geometry G: line 583
\* passes "NUM_OF_FILES / 8 + NUM_OF_FILES % 8 > 0", a comparison.
LayoutReload(G) ==
    LET files == G.i_nodes - 1
    IN  Layout(G, IF CDiv(files, 8) + CRem(files, 8) > 0 THEN 1 ELSE 0)

\* The layout globals as mksfs(1) computes them (src/sfs_api.c:512-519).
FreshRegions ==
    LET itl == calculate_block_length(NUM_OF_I_NODES * SIZEOF_I_NODE)
        rds == 1 + itl
        rdl == calculate_block_length(NUM_OF_FILES * SIZEOF_DIRECTORY_ENTRY)
        bml == calculate_block_length(
                 CDiv(NUM_OF_FILES, 8) + (IF CRem(NUM_OF_FILES, 8) > 0 THEN 1 ELSE 0))
    IN  [I_NODE_TABLE_START |-> 1, I_NODE_TABLE_LENGTH |-> itl,
         ROOT_DIRECTORY_START |-> rds, ROOT_DIRECTORY_LENGTH |-> rdl,
         DATA_BLOCK_START |-> rds + rdl,
         DATA_BLOCK_LENGTH |-> (FILE_SYSTEM_SIZE - bml) - (rds + rdl),
         BITMAP_START |-> FILE_SYSTEM_SIZE - bml, BITMAP_LENGTH |-> bml]

\* The layout globals as mksfs(0) computes them (src/sfs_api.c:578-585):
\* the bitmap length is that of "NUM_OF_FILES / 8 + NUM_OF_FILES % 8 > 0",
\* a comparison, so of 1 or 0 bytes.
ReloadRegions ==
    LET itl == calculate_block_length(NUM_OF_I_NODES * SIZEOF_I_NODE)
        rds == 1 + itl
        rdl == calculate_block_length(NUM_OF_FILES * SIZEOF_DIRECTORY_ENTRY)
        bml == calculate_block_length(
                 IF CDiv(NUM_OF_FILES, 8) + CRem(NUM_OF_FILES, 8) > 0 THEN 1 ELSE 0)
    IN  [I_NODE_TABLE_START |-> 1, I_NODE_TABLE_LENGTH |-> itl,
         ROOT_DIRECTORY_START |-> rds, ROOT_DIRECTORY_LENGTH |-> rdl,
         DATA_BLOCK_START |-> rds + rdl,
         DATA_BLOCK_LENGTH |-> (FILE_SYSTEM_SIZE - bml) - (rds + rdl),
         BITMAP_START |-> FILE_SYSTEM_SIZE - bml, BITMAP_LENGTH |-> bml]

FreeInode ==
    i_node(MODE_INIT, 0, -1, -1, -1, [i \in Directs |-> -1], -1)

\* The i-node table of mksfs(1): all free but the root i-node 0, which
\* holds the directory region (src/sfs_api.c:537-550).
FreshInodeTable(r) ==
    [k \in 0..(NUM_OF_I_NODES - 1) |->
        IF k = 0
        THEN [FreeInode EXCEPT
                !.size = NUM_OF_FILES * SIZEOF_DIRECTORY_ENTRY,
                !.direct_pointers =
                    [i \in Directs |->
                        IF i < r.ROOT_DIRECTORY_LENGTH
                        THEN i + r.ROOT_DIRECTORY_START ELSE -1]]
        ELSE FreeInode]

\* The directory of mksfs(1): the loop of src/sfs_api.c:555 clears the
\* entries 0..NUM_OF_FILES-2 and leaves the last entry as it was (old).
FreshDirectory(old) ==
    [k \in Fds |->
        IF k < NUM_OF_FILES - 1 THEN directory_entry(-1, NoName) ELSE old[k]]

\* A directory_entry of the zero-initialised global of a new process.
ZeroDirectory == [k \in Fds |-> directory_entry(0, NoName)]

\* bitmap_occupy_a_block on each of the blocks from..(to - 1), in order.
RECURSIVE OccupyAll(_, _, _)
OccupyAll(bm, from, to) ==
    IF to <= from THEN bm
    ELSE IF to = from + 1 THEN bitmap_occupy_a_block(bm, from, FALSE)
    ELSE LET first == OccupyAll(bm, from, (from + to) \div 2)
         IN  IF Evaluated(first) THEN OccupyAll(first, (from + to) \div 2, to)
             ELSE bm

FreshBitmap(r) ==
    OccupyAll(OccupyAll([k \in 0..(BITMAP_BYTES - 1) |-> 255],
                        0, r.DATA_BLOCK_START),
              r.BITMAP_START, FILE_SYSTEM_SIZE)

FreshFdt == [k \in Fds |-> fdt_entry(-1, -1)]

\* The device after mksfs(1).
FreshDisk(r, itab, dir, bm) ==
    LET d0 == write_blocks(init_fresh_disk, 0, 1,
                write_data_to_a_buffer(
                    super_block(r.I_NODE_TABLE_LENGTH, r.ROOT_DIRECTORY_START)))
        d1 == flush_i_node_table(d0, itab, r)
        d2 == flush_root_directory_table(d1, dir, r)
    IN  flush_bitmap(d2, bm, r)

\* last records the most recent call: its arguments, return value, the data
\* it copied out and pre, what the cached tables answered for its argument
\* when it was made (open: the handle the name was open under; remove: the
\* i-node of the name; calls on a handle: the cursor of the handle).
NoCall == [op |-> "mksfs", arg |-> <<1>>, ret |-> 0, data |-> <<>>, pre |-> -1]

\* track follows the file most recently created by open while its history
\* is: writes through the handle open returned, then at most one close of
\* that handle, then at most one mksfs(0) or one remove of the file.  data
\* is what the writes passed, full whether every write returned the length
\* passed, room whether every write fitted the blocks an i-node addresses
\* and the free blocks, inode the i-node of the file, free0 the free blocks
\* at the time of the open.
NoTrack ==
    [fd |-> -1, name |-> -1, data |-> <<>>, full |-> TRUE, room |-> TRUE,
     writes |-> 0, closed |-> FALSE, reloaded |-> FALSE, removed |-> FALSE,
     inode |-> -1, free0 |-> {}]

\* mksfs(1) in a new process.
Init ==
    /\ regions = FreshRegions
    /\ g_inode_table = FreshInodeTable(FreshRegions)
    /\ g_root_directory_table = FreshDirectory(ZeroDirectory)
    /\ g_bitmap = FreshBitmap(FreshRegions)
    /\ g_fdt = FreshFdt
    /\ root_file_counter = 0
    /\ disk = FreshDisk(FreshRegions, FreshInodeTable(FreshRegions),
                        FreshDirectory(ZeroDirectory), FreshBitmap(FreshRegions))
    /\ mem_after = "unknown"
    /\ halted = FALSE
    /\ last = NoCall
    /\ track = NoTrack
    /\ created = {}
    /\ geometry = BuildGeometry
    /\ ops = 0


\* ------------------------------------------------------------------------
\* The facade.  Each function maps the state S it is called in, a record of
\* the cached tables and the device, to the state it returns in; ret is its
\* return value, data what it copied out, undef whether it left defined
\* behaviour on the way.
\* ------------------------------------------------------------------------

Cur ==
    [tab |-> g_inode_table, fdt |-> g_fdt, dir |-> g_root_directory_table,
     bm |-> g_bitmap, disk |-> disk, rfc |-> root_file_counter,
     r |-> regions, ret |-> 0, data |-> <<>>, undef |-> FALSE]

\* memcpy(file_name, filename, strlen(filename)) onto the name buffer of
\* the entry: the cells past the string keep what they held.
CopyName(old, filename) ==
    [i \in 1..FILE_NAME_CELLS |->
        IF i <= Len(filename) THEN filename[i] ELSE old[i]]

sfs_getfilesize(S, filename) ==
    LET result == root_get_directory_entry(S.dir, filename)
    IN  IF result = -1 THEN [S EXCEPT !.ret = -1]
        ELSE IF S.dir[result].i_node_id \in DOMAIN S.tab
        THEN [S EXCEPT !.ret = S.tab[S.dir[result].i_node_id].size]
        ELSE [S EXCEPT !.undef = TRUE]

\* Variant of sfs_fopen that opens a file of the directory with the cursor at
\* its start.
sfs_fopen_rewind(S, filename) ==
    LET fd == fdt_get_fd_by_filename(S.fdt, S.dir, filename)
        target == root_get_directory_entry(S.dir, filename)
        vac_root == root_get_first_available_directory_entry(S.dir)
        vac_i_node == inode_tab_get_first_available_entry(S.tab)
        vac_fdt == fdt_get_first_available_entry(S.fdt)
    IN  IF FdtScanDerefsNull(S.fdt, S.dir, filename)
        THEN [S EXCEPT !.undef = TRUE]
        ELSE IF fd # -1 THEN [S EXCEPT !.ret = fd]
        ELSE IF target # -1
        THEN IF vac_fdt = -1 THEN [S EXCEPT !.ret = -1]
             ELSE IF S.dir[target].i_node_id \notin DOMAIN S.tab
             THEN [S EXCEPT !.undef = TRUE]
             ELSE [S EXCEPT
                     !.fdt[vac_fdt] =
                         fdt_entry(S.dir[target].i_node_id, 0),
                     !.ret = vac_fdt]
        ELSE IF vac_root = -1 \/ vac_i_node = -1 \/ vac_fdt = -1
        THEN [S EXCEPT !.ret = -1]
        ELSE LET tab1 == [S.tab EXCEPT ![vac_i_node].size = 0]
                 dir1 == [S.dir EXCEPT ![vac_root] =
                            directory_entry(vac_i_node,
                                CopyName(S.dir[vac_root].file_name, filename))]
                 d1 == flush_i_node_table(S.disk, tab1, S.r)
                 d2 == flush_root_directory_table(d1, dir1, S.r)
             IN  [S EXCEPT !.tab = tab1, !.dir = dir1,
                           !.fdt[vac_fdt] = fdt_entry(vac_i_node, 0),
                           !.disk = d2, !.ret = vac_fdt]

\* Variant of sfs_fopen that takes the i-node for a new file before it finds
\* the directory or the FDT full.
sfs_fopen_claim_first(S, filename) ==
    LET fd == fdt_get_fd_by_filename(S.fdt, S.dir, filename)
        target == root_get_directory_entry(S.dir, filename)
        vac_root == root_get_first_available_directory_entry(S.dir)
        vac_i_node == inode_tab_get_first_available_entry(S.tab)
        vac_fdt == fdt_get_first_available_entry(S.fdt)
    IN  IF FdtScanDerefsNull(S.fdt, S.dir, filename)
        THEN [S EXCEPT !.undef = TRUE]
        ELSE IF fd # -1 THEN [S EXCEPT !.ret = fd]
        ELSE IF target # -1
        THEN IF vac_fdt = -1 THEN [S EXCEPT !.ret = -1]
             ELSE IF S.dir[target].i_node_id \notin DOMAIN S.tab
             THEN [S EXCEPT !.undef = TRUE]
             ELSE [S EXCEPT
                     !.fdt[vac_fdt] =
                         fdt_entry(S.dir[target].i_node_id,
                                   S.tab[S.dir[target].i_node_id].size),
                     !.ret = vac_fdt]
        ELSE IF vac_root = -1 \/ vac_i_node = -1 \/ vac_fdt = -1
        THEN IF vac_i_node = -1 THEN [S EXCEPT !.ret = -1]
             ELSE [S EXCEPT !.tab[vac_i_node].size = 0, !.ret = -1]
        ELSE LET tab1 == [S.tab EXCEPT ![vac_i_node].size = 0]
                 dir1 == [S.dir EXCEPT ![vac_root] =
                            directory_entry(vac_i_node,
                                CopyName(S.dir[vac_root].file_name, filename))]
                 d1 == flush_i_node_table(S.disk, tab1, S.r)
                 d2 == flush_root_directory_table(d1, dir1, S.r)
             IN  [S EXCEPT !.tab = tab1, !.dir = dir1,
                           !.fdt[vac_fdt] = fdt_entry(vac_i_node, 0),
                           !.disk = d2, !.ret = vac_fdt]

\* Variant of sfs_fopen without the lookup in the directory: a name that is
\* not open is created, listed or not.
sfs_fopen_no_lookup(S, filename) ==
    LET fd == fdt_get_fd_by_filename(S.fdt, S.dir, filename)
        vac_root == root_get_first_available_directory_entry(S.dir)
        vac_i_node == inode_tab_get_first_available_entry(S.tab)
        vac_fdt == fdt_get_first_available_entry(S.fdt)
    IN  IF FdtScanDerefsNull(S.fdt, S.dir, filename)
        THEN [S EXCEPT !.undef = TRUE]
        ELSE IF fd # -1 THEN [S EXCEPT !.ret = fd]
        ELSE IF vac_root = -1 \/ vac_i_node = -1 \/ vac_fdt = -1
        THEN [S EXCEPT !.ret = -1]
        ELSE LET tab1 == [S.tab EXCEPT ![vac_i_node].size = 0]
                 dir1 == [S.dir EXCEPT ![vac_root] =
                            directory_entry(vac_i_node,
                                CopyName(S.dir[vac_root].file_name, filename))]
                 d1 == flush_i_node_table(S.disk, tab1, S.r)
                 d2 == flush_root_directory_table(d1, dir1, S.r)
             IN  [S EXCEPT !.tab = tab1, !.dir = dir1,
                           !.fdt[vac_fdt] = fdt_entry(vac_i_node, 0),
                           !.disk = d2, !.ret = vac_fdt]

\* Variant of sfs_fopen without the search through the FDT: a name that is
\* already open is opened once more.
sfs_fopen_no_search(S, filename) ==
    LET target == root_get_directory_entry(S.dir, filename)
        vac_root == root_get_first_available_directory_entry(S.dir)
        vac_i_node == inode_tab_get_first_available_entry(S.tab)
        vac_fdt == fdt_get_first_available_entry(S.fdt)
    IN  IF FdtScanDerefsNull(S.fdt, S.dir, filename)
        THEN [S EXCEPT !.undef = TRUE]
        ELSE IF target # -1
        THEN IF vac_fdt = -1 THEN [S EXCEPT !.ret = -1]
             ELSE IF S.dir[target].i_node_id \notin DOMAIN S.tab
             THEN [S EXCEPT !.undef = TRUE]
             ELSE [S EXCEPT
                     !.fdt[vac_fdt] =
                         fdt_entry(S.dir[target].i_node_id,
                                   S.tab[S.dir[target].i_node_id].size),
                     !.ret = vac_fdt]
        ELSE IF vac_root = -1 \/ vac_i_node = -1 \/ vac_fdt = -1
        THEN [S EXCEPT !.ret = -1]
        ELSE LET tab1 == [S.tab EXCEPT ![vac_i_node].size = 0]
                 dir1 == [S.dir EXCEPT ![vac_root] =
                            directory_entry(vac_i_node,
                                CopyName(S.dir[vac_root].file_name, filename))]
                 d1 == flush_i_node_table(S.disk, tab1, S.r)
                 d2 == flush_root_directory_table(d1, dir1, S.r)
             IN  [S EXCEPT !.tab = tab1, !.dir = dir1,
                           !.fdt[vac_fdt] = fdt_entry(vac_i_node, 0),
                           !.disk = d2, !.ret = vac_fdt]

sfs_fopen(S, filename) ==
    LET fd == fdt_get_fd_by_filename(S.fdt, S.dir, filename)
        target == root_get_directory_entry(S.dir, filename)
        vac_root == root_get_first_available_directory_entry(S.dir)
        vac_i_node == inode_tab_get_first_available_entry(S.tab)
        vac_fdt == fdt_get_first_available_entry(S.fdt)
    IN  IF FdtScanDerefsNull(S.fdt, S.dir, filename)
        THEN [S EXCEPT !.undef = TRUE]
        ELSE IF fd # -1 THEN [S EXCEPT !.ret = fd]
        ELSE IF target # -1
        THEN IF vac_fdt = -1 THEN [S EXCEPT !.ret = -1]
             ELSE IF S.dir[target].i_node_id \notin DOMAIN S.tab
             THEN [S EXCEPT !.undef = TRUE]
             ELSE [S EXCEPT
                     !.fdt[vac_fdt] =
                         fdt_entry(S.dir[target].i_node_id,
                                   S.tab[S.dir[target].i_node_id].size),
                     !.ret = vac_fdt]
        ELSE IF vac_root = -1 \/ vac_i_node = -1 \/ vac_fdt = -1
        THEN [S EXCEPT !.ret = -1]
        ELSE LET tab1 == [S.tab EXCEPT ![vac_i_node].size = 0]
                 dir1 == [S.dir EXCEPT ![vac_root] =
                            directory_entry(vac_i_node,
                                CopyName(S.dir[vac_root].file_name, filename))]
                 d1 == flush_i_node_table(S.disk, tab1, S.r)
                 d2 == flush_root_directory_table(d1, dir1, S.r)
             IN  [S EXCEPT !.tab = tab1, !.dir = dir1,
                           !.fdt[vac_fdt] = fdt_entry(vac_i_node, 0),
                           !.disk = d2, !.ret = vac_fdt]

sfs_fclose(S, fd) ==
    IF S.fdt[fd].i_node_idx = -1 THEN [S EXCEPT !.ret = -1]
    ELSE [S EXCEPT !.fdt[fd] = fdt_entry(-1, -1), !.ret = 0]

\* The chunk length both loops compute (src/sfs_api.c:740, 795).
ChunkLength(ptr, length) ==
    min(FILE_SYSTEM_BLOCK_SIZE - CRem(ptr, FILE_SYSTEM_BLOCK_SIZE),
        IF length >= FILE_SYSTEM_BLOCK_SIZE THEN FILE_SYSTEM_BLOCK_SIZE ELSE length)

\* One pass of the loop of sfs_fwrite on i-node idx.  W holds the tables,
\* the device and the locals file_size, ptr, the bytes still to write and
\* the total.  The cached node->size stays the old size until the loop is
\* over.
WriteStep(W, idx, g, shift_clears) ==
    LET n == ChunkLength(W.ptr, Len(W.rest))
        off == CRem(W.ptr, FILE_SYSTEM_BLOCK_SIZE)
        chunk == SubSeq(W.rest, 1, n)
        adv(X) == [X EXCEPT !.rest = SubSeq(W.rest, n + 1, Len(W.rest)),
                            !.ptr = W.ptr + n, !.total = W.total + n]
    IN  IF off = 0 /\ W.ptr >= W.file_size
        THEN LET a == inode_assign_new_block(W.tab, idx, W.bm, W.disk,
                                             W.r, g, shift_clears)
                 b == chunk \o [i \in 1..(FILE_SYSTEM_BLOCK_SIZE - n) |-> g]
             IN  adv([W EXCEPT !.tab = a.tab, !.bm = a.bm,
                               !.disk = write_blocks(a.disk, a.ret, 1, b),
                               !.file_size = W.file_size + n])
        ELSE IF off < 0 THEN [W EXCEPT !.undef = TRUE, !.rest = <<>>]
        ELSE LET block_id ==
                     inode_get_block_id_by_offset(W.tab[idx], W.ptr, W.disk, g)
                 old == LoadBlock(W.disk, block_id, g)
                 b == [i \in 1..FILE_SYSTEM_BLOCK_SIZE |->
                         IF i > off /\ i <= off + n THEN chunk[i - off]
                         ELSE old[i]]
             IN  adv([W EXCEPT !.disk = write_blocks(W.disk, block_id, 1, b),
                               !.file_size = max(W.file_size, W.ptr + n)])

\* while (length > 0).
RECURSIVE WriteLoop(_, _, _, _)
WriteLoop(W, idx, g, shift_clears) ==
    IF W.rest = <<>> THEN W
    ELSE WriteLoop(WriteStep(W, idx, g, shift_clears), idx, g, shift_clears)

sfs_fwrite(S, fd, buf, g, shift_clears) ==
    IF S.fdt[fd].i_node_idx = -1 THEN [S EXCEPT !.ret = -1]
    ELSE IF S.fdt[fd].i_node_idx \notin DOMAIN S.tab THEN [S EXCEPT !.undef = TRUE]
    ELSE LET idx == S.fdt[fd].i_node_idx
             W == WriteLoop([tab |-> S.tab, bm |-> S.bm, disk |-> S.disk,
                             r |-> S.r, file_size |-> S.tab[idx].size,
                             ptr |-> S.fdt[fd].read_write_pointer,
                             rest |-> buf, total |-> 0, undef |-> FALSE],
                            idx, g, shift_clears)
             tab1 == [W.tab EXCEPT ![idx].size = W.file_size]
             d1 == flush_bitmap(W.disk, W.bm, S.r)
             d2 == flush_i_node_table(d1, tab1, S.r)
         IN  IF W.undef THEN [S EXCEPT !.undef = TRUE]
             ELSE [S EXCEPT !.tab = tab1, !.bm = W.bm, !.disk = d2,
                            !.fdt[fd].read_write_pointer = W.ptr,
                            !.ret = W.total]

\* The loop of sfs_fread: the cursor after it and the bytes copied out.
ReadStep(node, d, R, g) ==
    LET n == ChunkLength(R.ptr, R.length)
        off == CRem(R.ptr, FILE_SYSTEM_BLOCK_SIZE)
        block_id == inode_get_block_id_by_offset(node, R.ptr, d, g)
        block_data == LoadBlock(d, block_id, g)
        got == [i \in 1..n |->
                  IF off + i \in DOMAIN block_data THEN block_data[off + i]
                  ELSE g]
    IN  [ptr |-> R.ptr + n, length |-> R.length - n, data |-> R.data \o got]

\* while (length > 0 && ptr < node->size).
RECURSIVE ReadLoop(_, _, _, _)
ReadLoop(node, d, R, g) ==
    IF ~(R.length > 0 /\ R.ptr < node.size) THEN R
    ELSE ReadLoop(node, d, ReadStep(node, d, R, g), g)

sfs_fread(S, fd, length, g) ==
    IF S.fdt[fd].i_node_idx = -1 THEN [S EXCEPT !.ret = -1]
    ELSE IF S.fdt[fd].i_node_idx \notin DOMAIN S.tab THEN [S EXCEPT !.undef = TRUE]
    ELSE LET R == ReadLoop(S.tab[S.fdt[fd].i_node_idx], S.disk,
                           [ptr |-> S.fdt[fd].read_write_pointer,
                            length |-> length, data |-> <<>>], g)
         IN  [S EXCEPT !.fdt[fd].read_write_pointer = R.ptr,
                       !.ret = Len(R.data), !.data = R.data]

\* Variant of sfs_fseek that rejects only offsets past the size.
sfs_fseek_past_end(S, fd, loc) ==
    IF S.fdt[fd].i_node_idx = -1 THEN [S EXCEPT !.ret = -1]
    ELSE IF S.fdt[fd].i_node_idx \notin DOMAIN S.tab THEN [S EXCEPT !.undef = TRUE]
    ELSE IF loc > S.tab[S.fdt[fd].i_node_idx].size THEN [S EXCEPT !.ret = -1]
    ELSE [S EXCEPT !.fdt[fd].read_write_pointer = loc, !.ret = 1]

sfs_fseek(S, fd, loc) ==
    IF S.fdt[fd].i_node_idx = -1 THEN [S EXCEPT !.ret = -1]
    ELSE IF S.fdt[fd].i_node_idx \notin DOMAIN S.tab THEN [S EXCEPT !.undef = TRUE]
    ELSE IF loc >= S.tab[S.fdt[fd].i_node_idx].size THEN [S EXCEPT !.ret = -1]
    ELSE [S EXCEPT !.fdt[fd].read_write_pointer = loc, !.ret = 1]

sfs_remove(S, filename, g) ==
    LET root_entry == root_get_directory_entry(S.dir, filename)
    IN  IF root_entry = -1 THEN [S EXCEPT !.ret = -1]
        ELSE LET inode_id == S.dir[root_entry].i_node_id
                 hit == {i \in Fds : S.fdt[i].i_node_idx = inode_id}
                 fdt1 == IF hit = {} THEN S.fdt
                         ELSE [S.fdt EXCEPT
                                 ![CHOOSE i \in hit : \A j \in hit : i <= j] =
                                     fdt_entry(-1, -1)]
             IN  IF inode_id \notin DOMAIN S.tab
                    \/ ~InodeResetDefined(S.tab, inode_id, S.disk, g)
                 THEN [S EXCEPT !.undef = TRUE]
                 ELSE LET x == inode_reset(S.tab, inode_id, S.bm, S.disk, S.r, g)
                          dir1 == [S.dir EXCEPT ![root_entry] =
                                      directory_entry(-1, NoName)]
                      IN  [S EXCEPT !.fdt = fdt1, !.tab = x.tab, !.bm = x.bm,
                                    !.dir = dir1,
                                    !.disk = flush_root_directory_table(
                                                x.disk, dir1, S.r),
                                    !.ret = 1]

\* data is the name copied to the result buffer.
sfs_getnextfilename(S) ==
    LET count_of_files == root_count_number_of_files(S.dir)
        i == IF S.rfc = count_of_files THEN 0 ELSE S.rfc
        e == root_get_ith_file(S.dir, i)
    IN  IF count_of_files = 0 THEN [S EXCEPT !.ret = -1]
        ELSE IF e = -1 THEN [S EXCEPT !.undef = TRUE]
        ELSE [S EXCEPT !.rfc = IF S.rfc = count_of_files THEN 0 ELSE S.rfc + 1,
                       !.ret = 1, !.data = CString(S.dir[e].file_name)]


\* Where the build may have placed the cached tables relative to each other:
\* "apart" (no table directly behind another one that is overrun),
\* g_root_directory_table directly behind g_bitmap, or g_inode_table
\* directly behind g_root_directory_table.
MemOrders == {"apart", "dir_after_bitmap", "inodes_after_dir"}

\* over written from the start of cells.
Overrun(cells, over) ==
    [i \in 1..Len(cells) |-> IF i <= Len(over) THEN over[i] ELSE cells[i]]

\* mksfs(0) in a new process (src/sfs_api.c:573-604).  read_blocks copies
\* whole blocks, so each read overruns its table by the padding of the
\* region; what the overrun hits depends on the build (order).
mksfs_reload(S, order) ==
    LET r == ReloadRegions
        icells == read_blocks(S.disk, r.I_NODE_TABLE_START, r.I_NODE_TABLE_LENGTH)
        dcells == read_blocks(S.disk, r.ROOT_DIRECTORY_START, r.ROOT_DIRECTORY_LENGTH)
        bcells == read_blocks(S.disk, r.BITMAP_START, r.BITMAP_LENGTH)
        isize == NUM_OF_I_NODES * SIZEOF_I_NODE
        dsize == NUM_OF_FILES * SIZEOF_DIRECTORY_ENTRY
        dover == SubSeq(dcells, dsize + 1, Len(dcells))
        bover == SubSeq(bcells, BITMAP_BYTES + 1, Len(bcells))
        itab0 == SubSeq(icells, 1, isize)
        itab1 == IF order = "inodes_after_dir" THEN Overrun(itab0, dover) ELSE itab0
        dir0 == SubSeq(dcells, 1, dsize)
        dir1 == IF order = "dir_after_bitmap" THEN Overrun(dir0, bover) ELSE dir0
        bm0 == [k \in 1..BITMAP_BYTES |-> BufCell(bcells, k)]
    IN  [S EXCEPT !.r = r, !.tab = CellsInodeTable(itab1),
                  !.dir = CellsDirectory(dir1), !.bm = CellsBitmap(bm0),
                  !.fdt = FreshFdt, !.rfc = 0, !.ret = 0]

\* ------------------------------------------------------------------------
\* Actions: one facade call each.
\* ------------------------------------------------------------------------

\* Handles the callers pass are 0..MaxFd.
MaxFd == 1

\* Lengths of the buffers written: one byte, the direct blocks, and one byte
\* more than the direct blocks and a full indirect block hold.
WriteLengths ==
    {1, NUM_DIRECT * FILE_SYSTEM_BLOCK_SIZE,
     (NUM_DIRECT + FILE_SYSTEM_BLOCK_SIZE) * FILE_SYSTEM_BLOCK_SIZE + 1}

ReadLengths == {1, NUM_DIRECT * FILE_SYSTEM_BLOCK_SIZE + 1}

SeekOffsets == {-1, 0, 1, FILE_SYSTEM_BLOCK_SIZE}

\* The buffer of length n whose bytes cycle through Bytes from v on.
Buffer(n, v) == [i \in 1..n |-> ((v + i) % MaxByte) + 1]

\* The outcomes of undefined reads and shifts considered within one call.
Oracles == {[g |-> -1, shift_clears |-> FALSE], [g |-> 0, shift_clears |-> TRUE]}

\* Whether growing i-node idx to new_size stays within the blocks an i-node
\* can address and within the free blocks of the bitmap.
HasRoom(S, idx, new_size) ==
    LET have == calculate_block_length(S.tab[idx].size)
        want == calculate_block_length(new_size)
        ind == IF want > NUM_DIRECT /\ have <= NUM_DIRECT THEN 1 ELSE 0
    IN  /\ want <= NUM_DIRECT + FILE_SYSTEM_BLOCK_SIZE
        /\ (want - have) + ind <= Cardinality(FreeBlocks(S.bm))

NextTrack(call, R) ==
    IF call.op = "open" /\ R.dir # g_root_directory_table
    THEN [NoTrack EXCEPT !.fd = R.ret, !.name = call.arg[1],
                         !.inode = R.fdt[R.ret].i_node_idx,
                         !.free0 = FreeBlocks(g_bitmap)]
    ELSE IF /\ call.op = "write" /\ track.fd = call.arg[1] /\ ~track.closed
            /\ Len(call.arg) = 2
    THEN [track EXCEPT
            !.data = @ \o call.arg[2],
            !.writes = @ + 1,
            !.full = @ /\ R.ret = Len(call.arg[2]),
            !.room = @ /\ HasRoom(Cur, g_fdt[track.fd].i_node_idx,
                                  Len(track.data) + Len(call.arg[2]))]
    ELSE IF call.op = "close" /\ track.fd = call.arg[1] /\ ~track.closed
    THEN [track EXCEPT !.closed = TRUE]
    ELSE IF /\ call.op = "remove" /\ track.name = call.arg[1] /\ R.ret = 1
            /\ ~track.removed /\ ~track.reloaded
    THEN [track EXCEPT !.removed = TRUE]
    ELSE NoTrack

\* created after the call: open adds the name when it returns a handle, a
\* remove that returns 1 takes the name out.
NextCreated(call, R) ==
    IF call.op = "open" /\ R.ret # -1 THEN created \cup {call.arg[1]}
    ELSE IF call.op = "remove" /\ R.ret = 1 THEN created \ {call.arg[1]}
    ELSE created

\* What last.pre records of the call.
PreOf(call) ==
    IF call.op = "open"
    THEN IF FdtScanDerefsNull(g_fdt, g_root_directory_table, Str(call.arg[1]))
         THEN -1
         ELSE fdt_get_fd_by_filename(g_fdt, g_root_directory_table,
                                     Str(call.arg[1]))
    ELSE IF call.op = "remove"
    THEN LET e == root_get_directory_entry(g_root_directory_table,
                                           Str(call.arg[1]))
         IN  IF e = -1 THEN -1 ELSE g_root_directory_table[e].i_node_id
    ELSE IF call.op \in {"write", "read", "seek", "close"}
    THEN g_fdt[call.arg[1]].read_write_pointer
    ELSE -1

\* The call returns in state R.
Commit(call, R) ==
    /\ ~halted
    /\ ops' = ops + 1
    /\ halted' = R.undef
    /\ UNCHANGED <<mem_after, geometry>>
    /\ IF R.undef
       THEN /\ UNCHANGED <<g_inode_table, g_fdt, g_root_directory_table, g_bitmap,
                           root_file_counter, regions, disk>>
            /\ last' = [op |-> call.op, arg |-> call.arg, ret |-> 0,
                        data |-> <<>>, pre |-> PreOf(call)]
            /\ track' = NoTrack
            /\ UNCHANGED created
       ELSE /\ g_inode_table' = R.tab
            /\ g_fdt' = R.fdt
            /\ g_root_directory_table' = R.dir
            /\ g_bitmap' = R.bm
            /\ root_file_counter' = R.rfc
            /\ regions' = R.r
            /\ disk' = R.disk
            /\ last' = [op |-> call.op, arg |-> call.arg, ret |-> R.ret,
                        data |-> R.data, pre |-> PreOf(call)]
            /\ track' = NextTrack(call, R)
            /\ created' = NextCreated(call, R)

\* What last records of a call on handle fd: the arguments, of which a call
\* on a closed handle reads the handle only.
CallArgs(fd, args) == IF g_fdt[fd].i_node_idx = -1 THEN <<fd>> ELSE args

Open ==
    \E name \in Names :
        /\ ops < MaxOps
        /\ Commit([op |-> "open", arg |-> <<name>>], sfs_fopen(Cur, Str(name)))

Close ==
    \E fd \in 0..MaxFd :
        /\ ops < MaxOps
        /\ Commit([op |-> "close", arg |-> <<fd>>], sfs_fclose(Cur, fd))

Write ==
    \E fd \in 0..MaxFd, n \in WriteLengths, v \in Bytes, o \in Oracles :
        /\ ops < MaxOps
        /\ Commit([op |-> "write", arg |-> CallArgs(fd, <<fd, Buffer(n, v)>>)],
                  sfs_fwrite(Cur, fd, Buffer(n, v), o.g, o.shift_clears))

Read ==
    \E fd \in 0..MaxFd, n \in ReadLengths, o \in Oracles :
        /\ ops < MaxOps
        /\ Commit([op |-> "read", arg |-> CallArgs(fd, <<fd, n>>)],
                  sfs_fread(Cur, fd, n, o.g))

Seek ==
    \E fd \in 0..MaxFd, loc \in SeekOffsets :
        /\ ops < MaxOps
        /\ Commit([op |-> "seek", arg |-> CallArgs(fd, <<fd, loc>>)],
                  sfs_fseek(Cur, fd, loc))

Remove ==
    \E name \in Names, o \in Oracles :
        /\ ops < MaxOps
        /\ Commit([op |-> "remove", arg |-> <<name>>],
                  sfs_remove(Cur, Str(name), o.g))

GetNextFileName ==
    /\ ops < MaxOps
    /\ Commit([op |-> "getnextfilename", arg |-> <<>>],
              sfs_getnextfilename(Cur))

GetFileSize ==
    \E name \in Names :
        /\ ops < MaxOps
        /\ Commit([op |-> "getfilesize", arg |-> <<name>>],
                  sfs_getfilesize(Cur, Str(name)))

\* The process ends and a new one calls mksfs(0).
Restart(order) ==
    /\ mem_after \in {"unknown", order}
    /\ ~halted
    /\ ops' = ops + 1
    /\ mem_after' = order
    /\ halted' = FALSE
    /\ LET R == mksfs_reload(Cur, order)
       IN  /\ g_inode_table' = R.tab
           /\ g_fdt' = R.fdt
           /\ g_root_directory_table' = R.dir
           /\ g_bitmap' = R.bm
           /\ root_file_counter' = R.rfc
           /\ regions' = R.r
    /\ UNCHANGED <<disk, created, geometry>>
    /\ last' = [op |-> "mksfs", arg |-> <<0>>, ret |-> 0, data |-> <<>>,
                pre |-> -1]
    /\ track' = IF track.closed /\ ~track.reloaded /\ ~track.removed
                THEN [track EXCEPT !.reloaded = TRUE]
                ELSE NoTrack

Reload ==
    \E order \in MemOrders :
        /\ ops < MaxOps
        /\ Restart(order)

\* mksfs(1), in the running process or in a new one.
Format ==
    \E new_process \in BOOLEAN :
        /\ ~halted
        /\ ops < MaxOps
        /\ ops' = ops + 1
        /\ mem_after' = IF new_process THEN "unknown" ELSE mem_after
        /\ halted' = FALSE
        /\ LET dir == FreshDirectory(IF new_process THEN ZeroDirectory
                                     ELSE g_root_directory_table)
           IN  /\ regions' = FreshRegions
               /\ g_inode_table' = FreshInodeTable(FreshRegions)
               /\ g_root_directory_table' = dir
               /\ g_bitmap' = FreshBitmap(FreshRegions)
               /\ g_fdt' = FreshFdt
               /\ disk' = FreshDisk(FreshRegions, FreshInodeTable(FreshRegions),
                                    dir, FreshBitmap(FreshRegions))
        /\ root_file_counter' = IF new_process THEN 0 ELSE root_file_counter
        /\ last' = NoCall
        /\ track' = NoTrack
        /\ created' = {}
        /\ UNCHANGED geometry

Next ==
    \/ Open
    \/ Close
    \/ Write
    \/ Read
    \/ Seek
    \/ Remove
    \/ GetNextFileName
    \/ GetFileSize
    \/ Reload
    \/ Format

Spec == Init /\ [][Next]_vars

\* Sequences of create (open of a name the directory does not hold), write
\* and remove calls only, of up to MaxFileOps calls, after mksfs(1) in a new
\* process.
MaxFileOps == 5

FilesOpen ==
    \E name \in Names :
        /\ ops < MaxFileOps
        /\ root_get_directory_entry(g_root_directory_table, Str(name)) = -1
        /\ Commit([op |-> "open", arg |-> <<name>>], sfs_fopen(Cur, Str(name)))

FilesWrite ==
    \E fd \in 0..MaxFd, n \in WriteLengths, o \in Oracles :
        /\ ops < MaxFileOps
        /\ Commit([op |-> "write", arg |-> CallArgs(fd, <<fd, Buffer(n, 0)>>)],
                  sfs_fwrite(Cur, fd, Buffer(n, 0), o.g, o.shift_clears))

FilesRemove ==
    \E name \in Names, o \in Oracles :
        /\ ops < MaxFileOps
        /\ Commit([op |-> "remove", arg |-> <<name>>],
                  sfs_remove(Cur, Str(name), o.g))

NextFiles ==
    \/ FilesOpen
    \/ FilesWrite
    \/ FilesRemove

SpecFiles == Init /\ [][NextFiles]_vars

\* Sessions of up to MaxSessionOps calls of a caller that creates or opens
\* files, writes single bytes through its first handle, removes the empty
\* name and lets a new process reload the device, in a build whose tables
\* lie apart in memory.
MaxSessionOps == 6

SessionOpen ==
    \E name \in Names :
        /\ ops < MaxSessionOps
        /\ Commit([op |-> "open", arg |-> <<name>>], sfs_fopen(Cur, Str(name)))

SessionWrite ==
    \E o \in Oracles :
        /\ ops < MaxSessionOps
        /\ Commit([op |-> "write", arg |-> CallArgs(0, <<0, Buffer(1, 0)>>)],
                  sfs_fwrite(Cur, 0, Buffer(1, 0), o.g, o.shift_clears))

SessionRemove ==
    \E o \in Oracles :
        /\ ops < MaxSessionOps
        /\ Commit([op |-> "remove", arg |-> <<0>>], sfs_remove(Cur, Str(0), o.g))

SessionReload ==
    /\ ops < MaxSessionOps
    /\ Restart("apart")

NextSession ==
    \/ SessionOpen
    \/ SessionWrite
    \/ SessionRemove
    \/ SessionReload

SpecSession == Init /\ [][NextSession]_vars

\* Callers that fill the tables: up to MaxFillOps calls that create or open
\* the files named 1..MaxFillName, write single bytes through the handles
\* 0..MaxFd and remove the first name, after mksfs(1) in a new process.
MaxFillOps == 8

MaxFillName == 4

FillOpen ==
    \E name \in 1..MaxFillName :
        /\ ops < MaxFillOps
        /\ Commit([op |-> "open", arg |-> <<name>>], sfs_fopen(Cur, Str(name)))

FillWrite ==
    \E fd \in 0..MaxFd, o \in Oracles :
        /\ ops < MaxFillOps
        /\ Commit([op |-> "write", arg |-> CallArgs(fd, <<fd, Buffer(1, 0)>>)],
                  sfs_fwrite(Cur, fd, Buffer(1, 0), o.g, o.shift_clears))

FillRemove ==
    \E o \in Oracles :
        /\ ops < MaxFillOps
        /\ Commit([op |-> "remove", arg |-> <<1>>], sfs_remove(Cur, Str(1), o.g))

NextFill ==
    \/ FillOpen
    \/ FillWrite
    \/ FillRemove

SpecFill == Init /\ [][NextFill]_vars

\* Callers that list the directory: up to MaxListOps calls that create or
\* open files, remove files and ask for the next file name, after mksfs(1)
\* in a new process.
MaxListOps == 6

ListOpen ==
    \E name \in Names :
        /\ ops < MaxListOps
        /\ Commit([op |-> "open", arg |-> <<name>>], sfs_fopen(Cur, Str(name)))

ListRemove ==
    \E name \in Names, o \in Oracles :
        /\ ops < MaxListOps
        /\ Commit([op |-> "remove", arg |-> <<name>>],
                  sfs_remove(Cur, Str(name), o.g))

ListNext ==
    /\ ops < MaxListOps
    /\ Commit([op |-> "getnextfilename", arg |-> <<>>],
              sfs_getnextfilename(Cur))

NextList ==
    \/ ListOpen
    \/ ListRemove
    \/ ListNext

SpecList == Init /\ [][NextList]_vars

\* A process that starts on a device it did not format itself.  Its globals
\* are zero-initialised (src/sfs_api.c:128-143) and the device is one of
\* DeviceImages; it calls mksfs(0) and then up to MaxDeviceOps - 1 further
\* calls.
MaxDeviceOps == 3

\* The state mksfs(1) returns in, in a new process.
FreshState ==
    [tab |-> FreshInodeTable(FreshRegions), fdt |-> FreshFdt,
     dir |-> FreshDirectory(ZeroDirectory), bm |-> FreshBitmap(FreshRegions),
     disk |-> FreshDisk(FreshRegions, FreshInodeTable(FreshRegions),
                        FreshDirectory(ZeroDirectory),
                        FreshBitmap(FreshRegions)),
     rfc |-> 0, r |-> FreshRegions, ret |-> 0, data |-> <<>>, undef |-> FALSE]

\* The device after mksfs(1), sfs_fopen of name 1 and a write of one byte.
FormattedImage ==
    sfs_fwrite(sfs_fopen(FreshState, Str(1)), 0, Buffer(1, 0), -1, FALSE).disk

\* The devices the process may find: the formatted one, the formatted one
\* with another value in the magic_number cell of block 0, and a blank one.
DeviceImages ==
    {[FormattedImage EXCEPT ![1] = m] :
        m \in {MAGIC_NUMBER, MAGIC_NUMBER + 1, 0}} \cup {init_fresh_disk}

ZeroRegions ==
    [I_NODE_TABLE_START |-> 1, I_NODE_TABLE_LENGTH |-> 0,
     ROOT_DIRECTORY_START |-> 0, ROOT_DIRECTORY_LENGTH |-> 0,
     DATA_BLOCK_START |-> 0, DATA_BLOCK_LENGTH |-> 0,
     BITMAP_START |-> 0, BITMAP_LENGTH |-> 0]

InitDevice ==
    /\ regions = ZeroRegions
    /\ g_inode_table = [k \in 0..(NUM_OF_I_NODES - 1) |->
                           i_node(0, 0, 0, 0, 0, [i \in Directs |-> 0], 0)]
    /\ g_root_directory_table = ZeroDirectory
    /\ g_bitmap = [k \in 0..(BITMAP_BYTES - 1) |-> 0]
    /\ g_fdt = [k \in Fds |-> fdt_entry(0, 0)]
    /\ root_file_counter = 0
    /\ disk \in DeviceImages
    /\ mem_after = "unknown"
    /\ halted = FALSE
    /\ last = [op |-> "start", arg |-> <<>>, ret |-> 0, data |-> <<>>,
               pre |-> -1]
    /\ track = NoTrack
    /\ created = {}
    /\ geometry = BuildGeometry
    /\ ops = 0

DeviceReload ==
    \E order \in MemOrders :
        /\ ops < MaxDeviceOps
        /\ Restart(order)

DeviceOpen ==
    \E name \in Names :
        /\ ops < MaxDeviceOps
        /\ last.op # "start"
        /\ Commit([op |-> "open", arg |-> <<name>>], sfs_fopen(Cur, Str(name)))

DeviceWrite ==
    \E o \in Oracles :
        /\ ops < MaxDeviceOps
        /\ last.op # "start"
        /\ Commit([op |-> "write", arg |-> CallArgs(0, <<0, Buffer(1, 0)>>)],
                  sfs_fwrite(Cur, 0, Buffer(1, 0), o.g, o.shift_clears))

DeviceGetFileSize ==
    \E name \in Names :
        /\ ops < MaxDeviceOps
        /\ last.op # "start"
        /\ Commit([op |-> "getfilesize", arg |-> <<name>>],
                  sfs_getfilesize(Cur, Str(name)))

NextDevice ==
    \/ DeviceReload
    \/ DeviceOpen
    \/ DeviceWrite
    \/ DeviceGetFileSize

SpecDevice == InitDevice /\ [][NextDevice]_vars

\* ------------------------------------------------------------------------
\* The directory: after mksfs(1) in a new process, up to MaxDirectoryOps
\* calls of sfs_fopen, sfs_fclose, sfs_fwrite and sfs_remove, with any of the
\* names, the empty one included.
\* ------------------------------------------------------------------------
MaxDirectoryOps == 5

DirectoryOpen ==
    \E name \in Names :
        /\ ops < MaxDirectoryOps
        /\ Commit([op |-> "open", arg |-> <<name>>], sfs_fopen(Cur, Str(name)))

DirectoryClose ==
    \E fd \in 0..MaxFd :
        /\ ops < MaxDirectoryOps
        /\ Commit([op |-> "close", arg |-> <<fd>>], sfs_fclose(Cur, fd))

DirectoryWrite ==
    \E fd \in 0..MaxFd, n \in WriteLengths, o \in Oracles :
        /\ ops < MaxDirectoryOps
        /\ Commit([op |-> "write", arg |-> CallArgs(fd, <<fd, Buffer(n, 0)>>)],
                  sfs_fwrite(Cur, fd, Buffer(n, 0), o.g, o.shift_clears))

DirectoryRemove ==
    \E name \in Names, o \in Oracles :
        /\ ops < MaxDirectoryOps
        /\ Commit([op |-> "remove", arg |-> <<name>>],
                  sfs_remove(Cur, Str(name), o.g))

NextDirectory ==
    \/ DirectoryOpen
    \/ DirectoryClose
    \/ DirectoryWrite
    \/ DirectoryRemove

SpecDirectory == Init /\ [][NextDirectory]_vars

\* ------------------------------------------------------------------------
\* The layout over builds: a process of a build of geometry G calls mksfs
\* with either flag, up to MaxLayoutOps times; only the layout globals are
\* followed.
\* ------------------------------------------------------------------------
MaxLayoutOps == 2

\* Largest block size, bytes of g_bitmap (FILE_SYSTEM_SIZE / 8) and
\* NUM_OF_I_NODES of the builds.
MaxLayoutBlockSize == 3

MaxLayoutBitmapBytes == 16

MaxLayoutInodes == 10

\* The builds followed: the one of this module, and the small ones whose
\* regions fit the device with a data block to spare.
Geometries ==
    {BuildGeometry} \cup
    {G \in [block_size : 1..MaxLayoutBlockSize,
            fs_size : {8 * k : k \in 1..MaxLayoutBitmapBytes},
            i_nodes : 2..MaxLayoutInodes] :
        LayoutFresh(G).DATA_BLOCK_LENGTH > 0}

InitLayout ==
    /\ regions = ZeroRegions
    /\ g_inode_table = [k \in 0..(NUM_OF_I_NODES - 1) |->
                           i_node(0, 0, 0, 0, 0, [i \in Directs |-> 0], 0)]
    /\ g_root_directory_table = ZeroDirectory
    /\ g_bitmap = [k \in 0..(BITMAP_BYTES - 1) |-> 0]
    /\ g_fdt = [k \in Fds |-> fdt_entry(0, 0)]
    /\ root_file_counter = 0
    /\ disk = init_fresh_disk
    /\ mem_after = "unknown"
    /\ halted = FALSE
    /\ last = [op |-> "start", arg |-> <<>>, ret |-> 0, data |-> <<>>,
               pre |-> -1]
    /\ track = NoTrack
    /\ created = {}
    /\ geometry \in Geometries
    /\ ops = 0

\* The assignments of mksfs(flag) to the layout globals.
LayoutCall(flag, r) ==
    /\ ops' = ops + 1
    /\ regions' = r
    /\ last' = [op |-> "mksfs", arg |-> <<flag>>, ret |-> 0, data |-> <<>>,
                pre |-> -1]
    /\ UNCHANGED <<g_inode_table, g_fdt, g_root_directory_table, g_bitmap,
                   root_file_counter, disk, mem_after, halted, track, created,
                   geometry>>

LayoutFormat ==
    /\ ops < MaxLayoutOps
    /\ LayoutCall(1, LayoutFresh(geometry))

LayoutRestart ==
    /\ ops < MaxLayoutOps
    /\ LayoutCall(0, LayoutReload(geometry))

NextLayout ==
    \/ LayoutFormat
    \/ LayoutRestart

SpecLayout == InitLayout /\ [][NextLayout]_vars

\* ------------------------------------------------------------------------
\* Properties.
\* ------------------------------------------------------------------------

\* The tracked file is newly created, has been written to and its handle
\* is still open; every write fitted the blocks an i-node addresses and the
\* free blocks.
TrackedWritten ==
    /\ ~halted
    /\ track.fd # -1 /\ ~track.closed /\ ~track.removed
    /\ track.writes > 0
    /\ track.room

\* seek(fd, 0) followed by read(fd, n), made in state S.
SeekRead(S, fd, n, g) == sfs_fread(sfs_fseek(S, fd, 0), fd, n, g)

\* C1: for a file newly created by open, after N consecutive writes through
\* that handle totalling B > 0 bytes, within the block capacity and the
\* free pool, every write returned its full length, file_size(name) is B,
\* and seek(h, 0) followed by read(h, B) returns the B bytes written, in
\* order.
C1_WriteReadRoundTrip ==
    TrackedWritten =>
        /\ track.full
        /\ sfs_getfilesize(Cur, Str(track.name)).ret = Len(track.data)
        /\ \A g \in Garbage :
              LET R == SeekRead(Cur, track.fd, Len(track.data), g)
              IN  /\ ~R.undef
                  /\ R.ret = Len(track.data)
                  /\ R.data = track.data

\* open(name), seek(fd, 0) and read(fd, n), made in state S.
OpenSeekRead(S, filename, n, g) ==
    LET O == sfs_fopen(S, filename)
    IN  IF O.undef \/ O.ret \notin Fds THEN [O EXCEPT !.data = <<>>, !.ret = -1]
        ELSE SeekRead(O, O.ret, n, g)

\* The tracked file was created, written within the block capacity and the
\* free pool and closed, and a new process has then reloaded the device.
TrackedReloaded ==
    /\ ~halted
    /\ track.fd # -1 /\ track.closed /\ track.reloaded /\ ~track.removed
    /\ track.writes > 0 /\ track.room /\ track.full

\* C2: after a file is created, content C is written to it and it is
\* closed, mksfs(0) in a new process followed by open, seek(0) and read of
\* |C| bytes returns C unchanged, and file_size reports |C|.
C2_RestartRoundTrip ==
    TrackedReloaded =>
        /\ sfs_getfilesize(Cur, Str(track.name)).ret = Len(track.data)
        /\ \A g \in Garbage :
              LET R == OpenSeekRead(Cur, Str(track.name), Len(track.data), g)
              IN  /\ ~R.undef
                  /\ R.ret = Len(track.data)
                  /\ R.data = track.data

\* The blocks of the data region, and those of them the bitmap marks
\* occupied.
DataRegion ==
    {b \in Blocks : /\ regions.DATA_BLOCK_START <= b
                    /\ b < regions.DATA_BLOCK_START + regions.DATA_BLOCK_LENGTH}

OccupiedDataBlocks == {b \in DataRegion : ~bitmap_is_block_free(g_bitmap, b)}

\* The i-nodes of the cached table whose size is not the free sentinel.
LiveInodes == {i \in DOMAIN g_inode_table : g_inode_table[i].size # -1}

\* The blocks the live i-nodes 0..k account for: ceil(size / block size)
\* each, with_root telling whether the root i-node 0 is counted and
\* with_indirect whether an indirect block counts as one block more.
RECURSIVE BlocksAccounted(_, _, _)
BlocksAccounted(k, with_root, with_indirect) ==
    IF k < 0 THEN 0
    ELSE BlocksAccounted(k - 1, with_root, with_indirect)
         + (IF k \notin LiveInodes \/ (k = 0 /\ ~with_root) THEN 0
            ELSE calculate_block_length(g_inode_table[k].size)
                 + (IF with_indirect /\ g_inode_table[k].indirect_pointer # -1
                    THEN 1 ELSE 0))

\* C3: after any sequence of create, write and remove calls, the number of
\* data-region blocks the bitmap marks occupied equals the sum over the
\* live i-nodes of ceil(size / block size), whether or not the root i-node
\* and the indirect blocks are taken into the sum.
C3_BitmapConservation ==
    ~halted =>
        \E with_root \in BOOLEAN, with_indirect \in BOOLEAN :
            Cardinality(OccupiedDataBlocks)
                = BlocksAccounted(NUM_OF_I_NODES - 1, with_root, with_indirect)

\* C4: the bits of the superblock, the i-node table region, the directory
\* region and the bitmap region are all marked occupied, and the block
\* allocation finds no block outside the data region.
C4_MetadataOccupied ==
    ~halted =>
        /\ \A b \in Blocks \ DataRegion : ~bitmap_is_block_free(g_bitmap, b)
        /\ bitmap_find_first_available_block(g_bitmap) \in DataRegion \cup {-1}

\* The i-nodes the directory lists.
ListedInodes ==
    {g_root_directory_table[k].i_node_id : k \in Fds} \cap DOMAIN g_inode_table

\* The entries of the indirect block of i-node i on the device, up to the
\* first sentinel.
IndirectEntries(i) ==
    IF g_inode_table[i].indirect_pointer \notin Blocks THEN <<>>
    ELSE UpToSentinel(read_blocks(disk, g_inode_table[i].indirect_pointer, 1))

\* The pointer slots of i-node i that hold a block: <<i, kind, index>>.
PointerSlots(i) ==
    {<<i, "direct", k>> : k \in {j \in Directs :
                                    g_inode_table[i].direct_pointers[j] # -1}}
    \cup (IF g_inode_table[i].indirect_pointer = -1 THEN {}
          ELSE {<<i, "indirect", 0>>})
    \cup {<<i, "entry", k>> : k \in DOMAIN IndirectEntries(i)}

SlotBlock(slot) ==
    IF slot[2] = "direct" THEN g_inode_table[slot[1]].direct_pointers[slot[3]]
    ELSE IF slot[2] = "indirect" THEN g_inode_table[slot[1]].indirect_pointer
    ELSE IndirectEntries(slot[1])[slot[3]]

ListedSlots == UNION {PointerSlots(i) : i \in ListedInodes}

\* C5: the direct pointers, indirect pointers and indirect-block entries of
\* the i-nodes the directory lists hold pairwise distinct blocks, each
\* marked occupied in the bitmap.
C5_NoDoubleAllocation ==
    ~halted =>
        /\ \A s \in ListedSlots, t \in ListedSlots :
              s # t => SlotBlock(s) # SlotBlock(t)
        /\ \A s \in ListedSlots :
              /\ SlotBlock(s) \in Blocks
              /\ ~bitmap_is_block_free(g_bitmap, SlotBlock(s))

\* The call before this state was a successful remove of the tracked file.
TrackedRemoved == ~halted /\ track.fd # -1 /\ track.removed

\* C6: after remove(name) succeeds, the i-node that backed name is free in
\* the cached i-node table: its size, its direct pointers and its indirect
\* pointer all hold the sentinel.
C6_RemoveFreesInode ==
    TrackedRemoved =>
        /\ g_inode_table[track.inode].size = -1
        /\ \A k \in Directs : g_inode_table[track.inode].direct_pointers[k] = -1
        /\ g_inode_table[track.inode].indirect_pointer = -1

\* C7: creating a file, writing it within the block capacity and the free
\* pool and removing it leaves the set of free blocks of the bitmap equal
\* to the set before the file was created.
C7_NoLeakOnRemove ==
    (TrackedRemoved /\ track.room /\ track.full) =>
        FreeBlocks(g_bitmap) = track.free0

\* The pointer logical block k of i-node i is assigned: a direct pointer,
\* or the entry of the indirect block on the device; -1 where the i-node
\* has no indirect block or the block has no such entry.
AssignedBlock(i, k) ==
    IF k < NUM_DIRECT THEN g_inode_table[i].direct_pointers[k]
    ELSE IF g_inode_table[i].indirect_pointer \notin Blocks THEN -1
    ELSE IF k - NUM_DIRECT >= FILE_SYSTEM_BLOCK_SIZE THEN -1
    ELSE read_blocks(disk, g_inode_table[i].indirect_pointer, 1)[k - NUM_DIRECT + 1]

\* C8: for every live i-node, each of the first ceil(size / block size)
\* logical blocks has an assigned pointer: a write whose growth failed is
\* not counted into the size.
C8_SizeWithinAssigned ==
    ~halted =>
        \A i \in LiveInodes :
            \A k \in 0..(calculate_block_length(g_inode_table[i].size) - 1) :
                AssignedBlock(i, k) # -1

\* C9: the cursor c of every open handle satisfies 0 <= c <= size of the
\* i-node the handle targets.
C9_CursorWithinFile ==
    ~halted =>
        \A fd \in Fds :
            g_fdt[fd].i_node_idx \in DOMAIN g_inode_table =>
                /\ 0 <= g_fdt[fd].read_write_pointer
                /\ g_fdt[fd].read_write_pointer
                       <= g_inode_table[g_fdt[fd].i_node_idx].size

HasHandle(fdt, i) == \E fd \in Fds : fdt[fd].i_node_idx = i

OpenHandles == {fd \in Fds : g_fdt[fd].i_node_idx \in DOMAIN g_inode_table}

\* C12: for every open handle h on a file of size S, seek(h, S) returns -1
\* and leaves the handle table as it was, and when S > 0 seek(h, S - 1)
\* returns 1 and sets the cursor of h, and of no other handle, to S - 1.
C12_SeekBoundary ==
    ~halted =>
        \A fd \in OpenHandles :
            LET size == g_inode_table[g_fdt[fd].i_node_idx].size
                AtEnd == sfs_fseek(Cur, fd, size)
                AtLast == sfs_fseek(Cur, fd, size - 1)
            IN  /\ ~AtEnd.undef /\ AtEnd.ret = -1 /\ AtEnd.fdt = g_fdt
                /\ size > 0 =>
                      /\ ~AtLast.undef /\ AtLast.ret = 1
                      /\ AtLast.fdt
                            = [g_fdt EXCEPT ![fd].read_write_pointer = size - 1]

\* A seek to the last byte of a file has succeeded on a handle whose cursor
\* was elsewhere.
C12_Witness ==
    /\ ~halted
    /\ last.op = "seek" /\ last.ret = 1 /\ Len(last.arg) = 2
    /\ last.arg[1] \in OpenHandles
    /\ g_inode_table[g_fdt[last.arg[1]].i_node_idx].size > 0
    /\ last.arg[2] = g_inode_table[g_fdt[last.arg[1]].i_node_idx].size - 1
    /\ g_fdt[last.arg[1]].read_write_pointer = last.arg[2]
    /\ last.pre # last.arg[2]


C14_RemoveMissing ==
    [][(/\ ops' = ops + 1
        /\ last'.op = "remove"
        /\ last'.arg[1] \notin created)
       => (/\ ~halted'
           /\ last'.ret = -1
           /\ UNCHANGED <<g_root_directory_table, g_bitmap, g_inode_table,
                          g_fdt>>)]_vars


\* No two handles of the FDT are open on the same i-node.
OneHandlePerInode ==
    \A fd \in Fds, other \in Fds :
        (fd # other /\ g_fdt[fd].i_node_idx # -1)
            => g_fdt[fd].i_node_idx # g_fdt[other].i_node_idx

\* C15: at most one handle is open on an i-node in every state, and when
\* remove(name) has returned 1 no handle is open on the i-node that backed
\* name, the directory holds no entry named name and file_size(name)
\* returns -1.
C15_RemoveDetaches ==
    /\ [](~halted => OneHandlePerInode)
    /\ [][(/\ ops' = ops + 1
           /\ last'.op = "remove"
           /\ ~halted'
           /\ last'.ret = 1)
          => LET filename == Str(last'.arg[1])
                 After == [Cur EXCEPT !.tab = g_inode_table',
                                      !.dir = g_root_directory_table']
             IN  /\ ~HasHandle(g_fdt', last'.pre)
                 /\ \A k \in Fds :
                       g_root_directory_table'[k].i_node_id # -1
                          => CString(g_root_directory_table'[k].file_name)
                                 # filename
                 /\ sfs_getfilesize(After, filename).ret = -1]_vars


\* The indices of the non-empty entries of the directory, in table order.
RECURSIVE NonEmptyFrom(_, _)
NonEmptyFrom(dir, k) ==
    IF k >= NUM_OF_FILES THEN <<>>
    ELSE (IF dir[k].i_node_id # -1 THEN <<k>> ELSE <<>>)
            \o NonEmptyFrom(dir, k + 1)

\* The names of the non-empty entries, in table order.
ListedNames(dir) ==
    [p \in DOMAIN NonEmptyFrom(dir, 0) |->
        CString(dir[NonEmptyFrom(dir, 0)[p]].file_name)]

\* C16: with k >= 1 non-empty entries, sfs_getnextfilename returns 1 and
\* the name of a non-empty entry, and of two calls in a row (no create or
\* remove in between) the second returns the name of the entry that follows
\* the entry of the first in table order, the first entry following the
\* last: k calls in a row return each name once.
C16_CircularListing ==
    [][(/\ ops' = ops + 1
        /\ last'.op = "getnextfilename"
        /\ root_count_number_of_files(g_root_directory_table) >= 1)
       => LET names == ListedNames(g_root_directory_table)
              k == Len(names)
          IN  /\ ~halted'
              /\ last'.ret = 1
              /\ \E p \in 1..k : names[p] = last'.data
              /\ \A p \in 1..k :
                    (/\ last.op = "getnextfilename" /\ last.ret = 1
                     /\ names[p] = last.data
                     /\ \A q \in 1..k : names[q] = names[p] => q = p)
                    => last'.data = names[(p % k) + 1]]_vars


\* Whether block 0 of device d holds the superblock mksfs(1) writes: the
\* magic number and the geometry.
SuperBlockValid(d) ==
    SubSeq(read_blocks(d, 0, 1), 1, SIZEOF_SUPER_BLOCK)
        = super_block(FreshRegions.I_NODE_TABLE_LENGTH,
                      FreshRegions.ROOT_DIRECTORY_START)

\* C17: mksfs(0) on a device whose block 0 does not hold the magic number
\* and the geometry of mksfs(1) rejects the reload: the cached i-node table,
\* directory, bitmap and handle table are left as they were and not loaded
\* from the device.
C17_ReloadValidates ==
    [][(/\ ops' = ops + 1
        /\ last'.op = "mksfs" /\ last'.arg = <<0>>
        /\ ~SuperBlockValid(disk))
       => UNCHANGED <<g_inode_table, g_root_directory_table, g_bitmap,
                      g_fdt>>]_vars


\* The first n cells of the region of the device that starts at block start
\* and is length blocks long.
RegionCells(start, length, n) == SubSeq(read_blocks(disk, start, length), 1, n)

\* The device regions hold the serialised cached tables.
TablesOnDevice ==
    /\ RegionCells(regions.I_NODE_TABLE_START, regions.I_NODE_TABLE_LENGTH,
                   NUM_OF_I_NODES * SIZEOF_I_NODE)
           = InodeTableCells(g_inode_table)
    /\ RegionCells(regions.ROOT_DIRECTORY_START, regions.ROOT_DIRECTORY_LENGTH,
                   NUM_OF_FILES * SIZEOF_DIRECTORY_ENTRY)
           = DirectoryCells(g_root_directory_table)
    /\ RegionCells(regions.BITMAP_START, regions.BITMAP_LENGTH, BITMAP_BYTES)
           = BitmapCells(g_bitmap)

\* C18: whenever mksfs(1), open, write or remove has returned, the i-node
\* table, directory and bitmap regions of the device hold the serialised
\* cached i-node table, directory and bitmap.
C18_WriteThrough ==
    (~halted /\ last.op \in {"mksfs", "open", "write", "remove"}
             /\ last.arg # <<0>>)
        => TablesOnDevice


\* The blocks taken from the free pool since the tracked file was created.
TrackedAllocated == track.free0 \ FreeBlocks(g_bitmap)

\* C19: a new file written with exactly NUM_DIRECT blocks of bytes has all
\* its direct pointers assigned, no indirect block, and NUM_DIRECT blocks
\* were taken from the free pool; written with one byte more it has an
\* indirect block and one further data block, both occupied, the data block
\* being the first and only entry of the indirect block on the device.
C19_DirectIndirectBoundary ==
    (TrackedWritten /\ track.full) =>
        LET node == g_inode_table[track.inode]
            entries == IndirectEntries(track.inode)
        IN  /\ Len(track.data) = NUM_DIRECT * FILE_SYSTEM_BLOCK_SIZE =>
                  /\ \A k \in Directs : node.direct_pointers[k] \in Blocks
                  /\ node.indirect_pointer = -1
                  /\ Cardinality(TrackedAllocated) = NUM_DIRECT
                  /\ TrackedAllocated
                         = {node.direct_pointers[k] : k \in Directs}
            /\ Len(track.data) = NUM_DIRECT * FILE_SYSTEM_BLOCK_SIZE + 1 =>
                  /\ \A k \in Directs : node.direct_pointers[k] \in Blocks
                  /\ node.indirect_pointer \in Blocks
                  /\ Len(entries) = 1
                  /\ entries[1] \in Blocks
                  /\ Cardinality(TrackedAllocated) = NUM_DIRECT + 2
                  /\ TrackedAllocated
                         = {node.direct_pointers[k] : k \in Directs}
                             \cup {node.indirect_pointer, entries[1]}

\* A new file was written with NUM_DIRECT blocks of bytes and then with one
\* byte more, which gave it an indirect block.
C19_Witness ==
    /\ TrackedWritten /\ track.full
    /\ track.writes = 2
    /\ last.op = "write" /\ last.ret = 1
    /\ Len(track.data) = NUM_DIRECT * FILE_SYSTEM_BLOCK_SIZE + 1
    /\ g_inode_table[track.inode].indirect_pointer \in Blocks


\* C20: for every i below the number of files, root_get_ith_file(i) returns
\* the entry that is i-th among the non-empty entries in table order, also
\* when empty slots precede it.
C20_NthEntry ==
    ~halted =>
        \A i \in 0..(root_count_number_of_files(g_root_directory_table) - 1) :
            root_get_ith_file(g_root_directory_table, i)
                = NonEmptyFrom(g_root_directory_table, 0)[i + 1]

FileByte(i, k) ==
    LET b == AssignedBlock(i, CDiv(k, FILE_SYSTEM_BLOCK_SIZE))
    IN  IF b \in Blocks
        THEN read_blocks(disk, b, 1)[CRem(k, FILE_SYSTEM_BLOCK_SIZE) + 1]
        ELSE -2

\* C22: a write of n bytes through an open handle at cursor c with
\* c + n <= size returns n, leaves the i-node table (the sizes and the block
\* pointers) and the bitmap unchanged, moves the cursor of that handle alone
\* to c + n, makes the bytes c..c+n-1 of the file those of the buffer, and
\* leaves the other bytes of the file and the bytes of every other file
\* unchanged.
C22_OverwriteFrame ==
    [][\A fd \in Fds : \A idx \in DOMAIN g_inode_table :
         LET c == g_fdt[fd].read_write_pointer
             buf == last'.arg[2]
             n == Len(buf)
         IN  (/\ ops' = ops + 1
              /\ last'.op = "write"
              /\ Len(last'.arg) = 2
              /\ last'.arg[1] = fd
              /\ g_fdt[fd].i_node_idx = idx
              /\ c + n <= g_inode_table[idx].size)
             => /\ ~halted'
                /\ last'.ret = n
                /\ g_inode_table' = g_inode_table
                /\ g_bitmap' = g_bitmap
                /\ g_fdt' = [g_fdt EXCEPT ![fd].read_write_pointer = c + n]
                /\ \A k \in 0..(g_inode_table[idx].size - 1) :
                       FileByte(idx, k)' =
                           IF c <= k /\ k < c + n THEN buf[k - c + 1]
                           ELSE FileByte(idx, k)
                /\ \A j \in LiveInodes \ {idx} :
                       \A k \in 0..(g_inode_table[j].size - 1) :
                           FileByte(j, k)' = FileByte(j, k)]_vars

C24_FreshDirectoryEmpty ==
    (ops = 0 /\ last = NoCall) =>
        /\ \A k \in Fds : g_root_directory_table[k].i_node_id = -1
        /\ root_count_number_of_files(g_root_directory_table) = 0
        /\ sfs_getnextfilename(Cur).ret = -1
        /\ \A name \in Names :
               /\ sfs_getfilesize(Cur, Str(name)).ret = -1
               /\ \A o \in Oracles : sfs_remove(Cur, Str(name), o.g).ret = -1

====
